---- MODULE Spec2Model ----
(***************************************************************************)
(* Model of the resume-screening assistant (ner001/ATS).                   *)
(*                                                                         *)
(* The part of the program that carries logic is the extraction step of    *)
(* generate_job_requirements (src/job_requirements.py): two regular        *)
(* expression searches over the model's reply, a cleanup, and json.loads.  *)
(* Texts are sequences of one-character strings, so that the searches, the *)
(* cleanup and the JSON decoder work on characters as the code does.       *)
(***************************************************************************)
EXTENDS Integers, Sequences, FiniteSets, TLC

VARIABLES
    text,       \* extraction alone: the response text handed to the extraction step
    xpc,        \* extraction alone: "input" before the step has run, "returned" after
    outcome,    \* extraction alone: the pair the step returned
    pc,         \* job-requirements page: "idle", or "waiting" while a run of main()
                \* is blocked in requests.post
    job_title,  \* job-requirements page: the text of the job title input
    slot,       \* job-requirements page: st.session_state.requirements
    reply,      \* job-requirements page: what the endpoint answered to the last run
    ret,        \* job-requirements page: the pair generate_job_requirements returned
    calls,      \* job-requirements page: the calls the last run made, in order
    before,     \* job-requirements page: the session slot as the last run found it
    page,       \* job-requirements page: what the last run of main() rendered
    apc,        \* match and report pages: "idle", or "waiting" while the Analyze
                \* handler is blocked in requests.post
    arun,       \* match and report pages: the last run of an Analyze handler
    matching_text, \* report page: the text read from the job matching upload
    disk,       \* match and report pages: llama_output.txt and llama_output.json
    agents,     \* resume parser: the agents the service holds under "resume-screening"
    gpc,        \* resume parser: where initialize_agent is: "idle" before the first
                \* run, "get", "delete", "create" before that call, "returned", "raised"
    gcalls,     \* resume parser: the service calls of the last run, in order
    existing_agent, \* resume parser: what get_agent returned
    agent,      \* resume parser: what initialize_agent returned
    prior,      \* resume parser: the agents the last run found in the service
    next_id     \* resume parser: the id the service gives the next agent

pagevars == <<pc, job_title, slot, reply, ret, calls, before, page>>
xvars == <<text, xpc, outcome>>
avars == <<apc, arun, matching_text, disk>>
gvars == <<agents, gpc, gcalls, existing_agent, agent, prior, next_id>>
vars == <<text, xpc, outcome, pc, job_title, slot, reply, ret, calls, before, page,
          apc, arun, matching_text, disk,
          agents, gpc, gcalls, existing_agent, agent, prior, next_id>>

(***************************************************************************)
(* Characters and the literals the code searches for.                      *)
(***************************************************************************)
\* the backtick character (written out: the lexer reserves the symbol itself)
BT == "backtick"
NL == "\n"
QT == "\""
SP == " "

Ticks == <<BT, BT, BT>>
FenceOpen == <<BT, BT, BT, "j", "s", "o", "n", NL>>
FenceClose == <<NL, BT, BT, BT>>

Min(S) == CHOOSE x \in S : \A y \in S : x <= y
Max(S) == CHOOSE x \in S : \A y \in S : x >= y

\* pat occurs in s at position i (1-based)
StartsAt(s, i, pat) ==
    /\ i >= 1
    /\ i + Len(pat) - 1 <= Len(s)
    /\ SubSeq(s, i, i + Len(pat) - 1) = pat

\* the positions of s at which pat occurs
Occurrences(s, pat) == {i \in 1..Len(s) : StartsAt(s, i, pat)}

NoMatch == [found |-> FALSE, group |-> <<>>]

\* SearchFenced with a greedy quantifier, (.*) for (.*?): up to the last closing fence
SearchFencedGreedy(s) ==
    LET starts == {p \in Occurrences(s, FenceOpen) :
                      \E q \in Occurrences(s, FenceClose) : q >= p + Len(FenceOpen)}
    IN  IF starts = {} THEN NoMatch
        ELSE [found |-> TRUE,
              group |-> SubSeq(s, Min(starts) + Len(FenceOpen), Max(Occurrences(s, FenceClose)) - 1)]

\* re.search over full_response (DOTALL) for BT BT BT json NL (.*?) NL BT BT BT: the leftmost
\* opening fence that has a closing fence after it, and the nearest such
\* closing fence (lazy quantifier); group(1) is what lies between them.
SearchFenced(s) ==
    LET starts == {p \in Occurrences(s, FenceOpen) :
                      \E q \in Occurrences(s, FenceClose) : q >= p + Len(FenceOpen)}
    IN  IF starts = {} THEN NoMatch
        ELSE LET p == Min(starts)
                 q == Min({r \in Occurrences(s, FenceClose) : r >= p + Len(FenceOpen)})
             IN  [found |-> TRUE, group |-> SubSeq(s, p + Len(FenceOpen), q - 1)]

\* SearchBraces with the opening brace left out of the pattern, (.*}) for ({.*})
SearchBracesNoOpen(s) ==
    IF Occurrences(s, <<"}">>) = {} THEN NoMatch
    ELSE [found |-> TRUE, group |-> SubSeq(s, 1, Max(Occurrences(s, <<"}">>)))]

\* a variant with a lazy quantifier: the span ends at the first '}' after its '{'
SearchBracesLazy(s) ==
    LET starts == {p \in Occurrences(s, <<"{">>) :
                      \E q \in Occurrences(s, <<"}">>) : q > p}
    IN  IF starts = {} THEN NoMatch
        ELSE LET p == Min(starts)
                 q == Min({q \in Occurrences(s, <<"}">>) : q > p})
             IN  [found |-> TRUE, group |-> SubSeq(s, p, q)]

\* re.search(r'({.*})', full_response, re.DOTALL): the leftmost '{' that has a
\* '}' after it, up to the last '}' of the text (greedy quantifier).
SearchBraces(s) ==
    LET starts == {p \in Occurrences(s, <<"{">>) :
                      \E q \in Occurrences(s, <<"}">>) : q > p}
    IN  IF starts = {} THEN NoMatch
        ELSE LET p == Min(starts)
                 q == Max(Occurrences(s, <<"}">>))
             IN  [found |-> TRUE, group |-> SubSeq(s, p, q)]

\* json_str.replace(BT BT BT, ''): every non-overlapping occurrence, left to right
RECURSIVE RemoveTicks(_)
RemoveTicks(s) ==
    IF s = <<>> THEN <<>>
    ELSE IF StartsAt(s, 1, Ticks) THEN RemoveTicks(SubSeq(s, Len(Ticks) + 1, Len(s)))
    ELSE <<Head(s)>> \o RemoveTicks(Tail(s))

\* the characters str.strip() removes (those of them a text here can hold)
IsSpace(c) == c \in {SP, NL, "\t", "\r", "\f"}

\* str.strip()
Strip(s) ==
    LET keep == {i \in 1..Len(s) : ~IsSpace(s[i])}
    IN  IF keep = {} THEN <<>> ELSE SubSeq(s, Min(keep), Max(keep))

\* json_str.replace(BT BT BT, '').strip()
CleanUp(s) == Strip(RemoveTicks(s))

(***************************************************************************)
(* json.loads.  A decoded value is a record of one shape for every JSON    *)
(* type: t is the Python type ("None" for null, which json.loads returns   *)
(* as None), n the integer of a number, s the characters of a string, and  *)
(* keys/kids the members of a dict (in insertion order) or the items of a  *)
(* list.  The grammar is the JSON grammar over the characters texts hold:  *)
(* no backslash, no '.', no exponent.                                       *)
(***************************************************************************)
MkVal(t, n, s, keys, kids) == [t |-> t, n |-> n, s |-> s, keys |-> keys, kids |-> kids]
None == MkVal("None", 0, <<>>, <<>>, <<>>)
PyBool(b) == MkVal("bool", IF b THEN 1 ELSE 0, <<>>, <<>>, <<>>)
PyInt(n) == MkVal("int", n, <<>>, <<>>, <<>>)
PyStr(s) == MkVal("str", 0, s, <<>>, <<>>)
PyList(kids) == MkVal("list", 0, <<>>, <<>>, kids)
PyDict(keys, kids) == MkVal("dict", 0, <<>>, keys, kids)

\* d[key] = v on a dict held as parallel sequences: a repeated key keeps its
\* place and takes the new value
DictSet(keys, kids, key, v) ==
    LET at == {k \in 1..Len(keys) : keys[k] = key}
    IN  IF at = {} THEN [keys |-> Append(keys, key), kids |-> Append(kids, v)]
        ELSE [keys |-> keys, kids |-> [kids EXCEPT ![Min(at)] = v]]

\* the result of a scan: the value and the position after it, or the
\* JSONDecodeError (msg, and pos as Python counts it, from 0)
Scanned(v, i) == [ok |-> TRUE, v |-> v, i |-> i, msg |-> "", pos |-> 0]
DecodeError(msg, i) == [ok |-> FALSE, v |-> None, i |-> 0, msg |-> msg, pos |-> i - 1]

\* json whitespace
IsWs(c) == c \in {SP, NL, "\t", "\r"}

\* WHITESPACE.match(s, i).end(): the first position at or after i that holds
\* no whitespace (Len(s) + 1 at the end of s)
SkipWs(s, i) == Min({j \in i..(Len(s) + 1) : j = Len(s) + 1 \/ ~IsWs(s[j])})

CharAt(s, i) == IF i >= 1 /\ i <= Len(s) THEN s[i] ELSE ""

Digits == <<"0", "1", "2", "3", "4", "5", "6", "7", "8", "9">>
IsDigit(c) == \E d \in 1..Len(Digits) : Digits[d] = c
DigitVal(c) == (CHOOSE d \in 1..Len(Digits) : Digits[d] = c) - 1

RECURSIVE IntOf(_)
IntOf(ds) == IF ds = <<>> THEN 0 ELSE 10 * IntOf(SubSeq(ds, 1, Len(ds) - 1)) + DigitVal(ds[Len(ds)])

\* NUMBER_RE.match at i: -?(0|[1-9][0-9]*); i holds a digit or '-' before one
ScanNumber(s, i) ==
    LET neg == CharAt(s, i) = "-"
        b == IF neg THEN i + 1 ELSE i
        e == IF s[b] = "0" THEN b
             ELSE Max({j \in b..Len(s) : \A k \in b..j : IsDigit(s[k])})
        n == IntOf(SubSeq(s, b, e))
    IN  Scanned(PyInt(IF neg THEN 0 - n ELSE n), e + 1)

\* scanstring(s, i): i is the position after the opening quote.  A raw
\* control character inside a string is an error (strict mode).
ScanString(s, i) ==
    LET stops == {j \in i..Len(s) : s[j] = QT \/ s[j] \in {NL, "\t", "\r", "\f"}}
    IN  IF stops = {} THEN DecodeError("Unterminated string starting at", i - 1)
        ELSE LET j == Min(stops)
             IN  IF s[j] = QT THEN Scanned(PyStr(SubSeq(s, i, j - 1)), j + 1)
                 ELSE DecodeError("Invalid control character at", j)

RECURSIVE ScanOnce(_, _), ObjectLoop(_, _, _, _), ArrayLoop(_, _, _)

\* JSONObject: i is the position after '{'
JSONObject(s, i) ==
    LET j == SkipWs(s, i)
    IN  IF CharAt(s, j) = "}" THEN Scanned(PyDict(<<>>, <<>>), j + 1)
        ELSE IF CharAt(s, j) # QT
             THEN DecodeError("Expecting property name enclosed in double quotes", j)
        ELSE ObjectLoop(s, j + 1, <<>>, <<>>)

\* the loop of JSONObject: i is the position after the opening quote of a key
ObjectLoop(s, i, keys, kids) ==
    LET key == ScanString(s, i)
    IN  IF ~key.ok THEN key
        ELSE LET c == SkipWs(s, key.i)
             IN  IF CharAt(s, c) # ":" THEN DecodeError("Expecting ':' delimiter", c)
                 ELSE LET val == ScanOnce(s, SkipWs(s, c + 1))
                      IN  IF ~val.ok THEN val
                          ELSE LET d == DictSet(keys, kids, key.v.s, val.v)
                                   e == SkipWs(s, val.i)
                               IN  IF CharAt(s, e) = "}"
                                   THEN Scanned(PyDict(d.keys, d.kids), e + 1)
                                   ELSE IF CharAt(s, e) # ","
                                   THEN DecodeError("Expecting ',' delimiter", e)
                                   ELSE LET k == SkipWs(s, e + 1)
                                        IN  IF CharAt(s, k) # QT
                                            THEN DecodeError("Expecting property name enclosed in double quotes", k)
                                            ELSE ObjectLoop(s, k + 1, d.keys, d.kids)

\* JSONArray: i is the position after '['
JSONArray(s, i) ==
    LET j == SkipWs(s, i)
    IN  IF CharAt(s, j) = "]" THEN Scanned(PyList(<<>>), j + 1)
        ELSE ArrayLoop(s, j, <<>>)

\* the loop of JSONArray: i is the position of the next item
ArrayLoop(s, i, kids) ==
    LET val == ScanOnce(s, i)
    IN  IF ~val.ok THEN val
        ELSE LET e == SkipWs(s, val.i)
             IN  IF CharAt(s, e) = "]" THEN Scanned(PyList(Append(kids, val.v)), e + 1)
                 ELSE IF CharAt(s, e) # "," THEN DecodeError("Expecting ',' delimiter", e)
                 ELSE ArrayLoop(s, SkipWs(s, e + 1), Append(kids, val.v))

\* scan_once(s, i): one JSON value starting exactly at i
ScanOnce(s, i) ==
    LET c == CharAt(s, i)
    IN  IF c = QT THEN ScanString(s, i + 1)
        ELSE IF c = "{" THEN JSONObject(s, i + 1)
        ELSE IF c = "[" THEN JSONArray(s, i + 1)
        ELSE IF StartsAt(s, i, <<"n", "u", "l", "l">>) THEN Scanned(None, i + 4)
        ELSE IF StartsAt(s, i, <<"t", "r", "u", "e">>) THEN Scanned(PyBool(TRUE), i + 4)
        ELSE IF StartsAt(s, i, <<"f", "a", "l", "s", "e">>) THEN Scanned(PyBool(FALSE), i + 5)
        ELSE IF IsDigit(c) \/ (c = "-" /\ IsDigit(CharAt(s, i + 1))) THEN ScanNumber(s, i)
        ELSE DecodeError("Expecting value", i)

\* json.loads(s): JSONDecoder.decode: one value, whitespace around it
\* allowed, nothing else after it
JsonLoads(s) ==
    LET r == ScanOnce(s, SkipWs(s, 1))
    IN  IF ~r.ok THEN r
        ELSE LET e == SkipWs(s, r.i)
             IN  IF e # Len(s) + 1 THEN DecodeError("Extra data", e)
                 ELSE Scanned(r.v, e)

\* Python's truth value of a decoded value
Truthy(v) ==
    CASE v.t = "None" -> FALSE
      [] v.t = "bool" -> v.n = 1
      [] v.t = "int" -> v.n # 0
      [] v.t = "str" -> v.s # <<>>
      [] v.t = "list" -> v.kids # <<>>
      [] v.t = "dict" -> v.keys # <<>>

(***************************************************************************)
(* json.dumps(value, indent=2), as the download button serializes the      *)
(* session's requirements.                                                  *)
(***************************************************************************)
RECURSIVE DigitsOf(_)
DigitsOf(n) == IF n < 10 THEN <<Digits[n + 1]>> ELSE DigitsOf(n \div 10) \o <<Digits[(n % 10) + 1]>>

IntStr(n) == IF n < 0 THEN <<"-">> \o DigitsOf(0 - n) ELSE DigitsOf(n)

RECURSIVE Spaces(_)
Spaces(n) == IF n = 0 THEN <<>> ELSE <<SP>> \o Spaces(n - 1)

\* the width of one indentation level: indent=2
Indent == 2

RECURSIVE Dumps(_, _), DumpItems(_, _, _, _)

\* the members from the i-th on, each on its own line at the given level
DumpItems(keys, kids, i, level) ==
    IF i > Len(kids) THEN <<>>
    ELSE <<NL>> \o Spaces(Indent * level)
         \o (IF keys = <<>> THEN <<>> ELSE <<QT>> \o keys[i] \o <<QT, ":", SP>>)
         \o Dumps(kids[i], level)
         \o (IF i < Len(kids) THEN <<",">> ELSE <<>>)
         \o DumpItems(keys, kids, i + 1, level)

\* a value written at nesting depth level
Dumps(v, level) ==
    CASE v.t = "None" -> <<"n", "u", "l", "l">>
      [] v.t = "bool" -> IF v.n = 1 THEN <<"t", "r", "u", "e">> ELSE <<"f", "a", "l", "s", "e">>
      [] v.t = "int" -> IntStr(v.n)
      [] v.t = "str" -> <<QT>> \o v.s \o <<QT>>
      [] v.t = "list" ->
            IF v.kids = <<>> THEN <<"[", "]">>
            ELSE <<"[">> \o DumpItems(<<>>, v.kids, 1, level + 1)
                 \o <<NL>> \o Spaces(Indent * level) \o <<"]">>
      [] v.t = "dict" ->
            IF v.keys = <<>> THEN <<"{", "}">>
            ELSE <<"{">> \o DumpItems(v.keys, v.kids, 1, level + 1)
                 \o <<NL>> \o Spaces(Indent * level) \o <<"}">>

JsonDumps(v) == Dumps(v, 0)

\* key in d, and d.get(key, default), on a decoded dict
HasKey(d, key) == \E k \in 1..Len(d.keys) : d.keys[k] = key
DictGet(d, key, default) ==
    IF HasKey(d, key) THEN d.kids[CHOOSE k \in 1..Len(d.keys) : d.keys[k] = key] ELSE default

(***************************************************************************)
(* The extraction step of generate_job_requirements.                       *)
(***************************************************************************)
NoDetail == [msg |-> "", pos |-> 0]

\* the second component of the returned pair: None, or one of the four
\* messages, held by its parts (kind: which f-string; detail: str(e) of the
\* JSONDecodeError; raw: the full_response it quotes; reason: the exception
\* the two outer handlers quote)
NoError == [kind |-> "None", detail |-> NoDetail, raw |-> <<>>, reason |-> ""]
\* InvalidJsonError quoting the candidate's error but not the raw response
InvalidJsonErrorNoRaw(r, full_response) ==
    [kind |-> "InvalidJson", detail |-> [msg |-> r.msg, pos |-> r.pos],
     raw |-> <<>>, reason |-> ""]

InvalidJsonError(r, full_response) ==
    [kind |-> "InvalidJson", detail |-> [msg |-> r.msg, pos |-> r.pos],
     raw |-> full_response, reason |-> ""]
\* a variant of line 117 that forgets the message
NoJsonErrorDropped(full_response) == NoError

NoJsonError(full_response) ==
    [kind |-> "NoJson", detail |-> NoDetail, raw |-> full_response, reason |-> ""]
ConnectError(reason) ==
    [kind |-> "Connect", detail |-> NoDetail, raw |-> <<>>, reason |-> reason]
UnexpectedError(reason) ==
    [kind |-> "Unexpected", detail |-> NoDetail, raw |-> <<>>, reason |-> reason]

Pair(requirements, error) == [requirements |-> requirements, error |-> error]

\* a variant that falls back to the brace scan when the fenced interior does
\* not decode
JsonMatchDecodable(full_response) ==
    LET json_match == SearchFenced(full_response)
    IN  IF ~json_match.found \/ ~JsonLoads(CleanUp(json_match.group)).ok
        THEN SearchBraces(full_response)
        ELSE json_match

\* the first search, and the second one only if the first found nothing
JsonMatch(full_response) ==
    LET json_match == SearchFenced(full_response)
    IN  IF ~json_match.found THEN SearchBraces(full_response) ELSE json_match

\* the candidate string handed to json.loads
JsonStr(full_response) == CleanUp(JsonMatch(full_response).group)

\* lines 101-117: search, cleanup, decode, and the pair returned
ExtractJson(full_response) ==
    IF JsonMatch(full_response).found
    THEN LET r == JsonLoads(JsonStr(full_response))
         IN  IF r.ok THEN Pair(r.v, NoError)
             ELSE Pair(None, InvalidJsonError(r, full_response))
    ELSE Pair(None, NoJsonError(full_response))

(***************************************************************************)
(* Response texts: up to MaxPieces pieces, each a run of characters a      *)
(* model's reply is made of.                                                *)
(***************************************************************************)
MaxPieces == 3

ObjA == <<"{", QT, "a", QT, ":", "1", "}">>
ObjTicks == <<"{", QT, "a", QT, ":", QT, BT, BT, BT, QT, "}">>
ObjTrailingComma == <<"{", QT, "a", QT, ":", "1", ",", "}">>
BlockB == FenceOpen \o <<"{", QT, "b", QT, ":", "2", "}">> \o FenceClose
BlockNull == FenceOpen \o <<"n", "u", "l", "l">> \o FenceClose
BlockOne == FenceOpen \o <<"1">> \o FenceClose

Pieces ==
    { FenceOpen, FenceClose, BlockB, BlockNull, BlockOne, ObjA, ObjTicks, ObjTrailingComma,
      <<"{">>, <<"}">>, Ticks, <<SP>>, <<"x">>, <<"1">>, <<"n", "u", "l", "l">> }

RECURSIVE TextsOf(_)
TextsOf(n) ==
    IF n = 0 THEN {<<>>}
    ELSE LET shorter == TextsOf(n - 1)
         IN  shorter \cup {t \o p : t \in shorter, p \in Pieces}

Texts == TextsOf(MaxPieces)

(***************************************************************************)
(* The generation endpoint, as generate_job_requirements reads its answer. *)
(***************************************************************************)
\* conn: "refused" when requests.post raises (endpoint unreachable); status:
\* the HTTP status; body: "not_json", "list" (JSON, but no object) or "dict";
\* response: the "response" member of the body: "absent", "null" or "str",
\* and then text is its value
Refused == [conn |-> "refused", status |-> 0, body |-> "none", response |-> "absent", text |-> <<>>]
Answer(status, body, response, t) ==
    [conn |-> "ok", status |-> status, body |-> body, response |-> response, text |-> t]

\* the statuses the endpoint answers with here
Statuses == {200, 204, 304, 404, 500}

\* response.raise_for_status() raises HTTPError
RaisesForStatus(r) == r.status >= 400 /\ r.status < 600

\* a default that is itself a JSON document, "{}" for ""
ResponseDefaultBraces == <<"{", "}">>

\* json_response.get("response", "")'s default
ResponseDefault == <<>>

\* full_response
FullResponse(r) == IF r.response = "absent" THEN ResponseDefault ELSE r.text

\* PostCalls with one retry after a refused connection
PostCallsRetry(r) == IF r.conn = "refused" THEN <<"post", "post">> ELSE <<"post">>

\* the requests the function sends for one call: one requests.post, whatever
\* it answers
PostCalls(r) == <<"post">>

\* the json.loads the function attempts for one response text: one, and only
\* when a search matched
LoadsCalls(full_response) == IF JsonMatch(full_response).found THEN <<"loads">> ELSE <<>>

\* generate_job_requirements(job_title, model): the pair it returns and the
\* calls it made.  requests' JSONDecodeError is a RequestException.
GenerateJobRequirements(r) ==
    IF r.conn = "refused"
    THEN [pair |-> Pair(None, ConnectError("ConnectionError")), calls |-> PostCalls(r)]
    ELSE IF RaisesForStatus(r)
    THEN [pair |-> Pair(None, ConnectError("HTTPError")), calls |-> PostCalls(r)]
    ELSE IF r.body = "not_json"
    THEN [pair |-> Pair(None, ConnectError("JSONDecodeError")), calls |-> PostCalls(r)]
    ELSE IF r.body # "dict"
    THEN [pair |-> Pair(None, UnexpectedError("AttributeError")), calls |-> PostCalls(r)]
    ELSE IF r.response = "null"
    THEN [pair |-> Pair(None, UnexpectedError("TypeError")), calls |-> PostCalls(r)]
    ELSE [pair |-> ExtractJson(FullResponse(r)),
          calls |-> PostCalls(r) \o LoadsCalls(FullResponse(r))]

(***************************************************************************)
(* The job-requirements page: display, edit, main.                         *)
(***************************************************************************)
K_job_type == <<"j", "o", "b", "_", "t", "y", "p", "e">>
K_importance_weights ==
    <<"i", "m", "p", "o", "r", "t", "a", "n", "c", "e", "_", "w", "e", "i", "g", "h", "t", "s">>
K_penalties == <<"p", "e", "n", "a", "l", "t", "i", "e", "s">>
K_skill == <<"s", "k", "i", "l", "l">>
K_requirement == <<"r", "e", "q", "u", "i", "r", "e", "m", "e", "n", "t">>
K_weight == <<"w", "e", "i", "g", "h", "t">>

EmptyDict == PyDict(<<>>, <<>>)
\* a float, held in tenths (the weight slider's step is 0.1)
PyFloat(tenths) == MkVal("float", tenths, <<>>, <<>>, <<>>)
IsNumber(v) == v.t \in {"int", "bool", "float"}

\* display_job_requirements(requirements) raises: .get on a value that is no
\* dict, .items() on weights or (non-empty) penalties that are no dict
DisplayRaises(requirements) ==
    \/ requirements.t # "dict"
    \/ DictGet(requirements, K_importance_weights, EmptyDict).t # "dict"
    \/ LET penalties == DictGet(requirements, K_penalties, EmptyDict)
       IN  Truthy(penalties) /\ penalties.t # "dict"

\* the widgets of one item of a category, left as they are first shown
NewItem(item) ==
    LET key == IF HasKey(item, K_skill) THEN K_skill ELSE K_requirement
        w == DictGet(item, K_weight, PyFloat(5))
    IN  PyDict(<<key, K_weight>>,
               <<DictGet(item, key, PyStr(<<>>)), PyFloat(IF w.t = "float" THEN w.n ELSE 10 * w.n)>>)

\* new_items of one category: the dict items whose name is not empty
RECURSIVE NewItems(_, _)
NewItems(items, j) ==
    IF items.t # "list" \/ j > Len(items.kids) THEN <<>>
    ELSE LET item == items.kids[j]
         IN  (IF item.t = "dict"
                 /\ Truthy(DictGet(item, IF HasKey(item, K_skill) THEN K_skill ELSE K_requirement,
                                   PyStr(<<>>)))
              THEN <<NewItem(item)>> ELSE <<>>) \o NewItems(items, j + 1)

\* new_weights: every category with its new_items
NewWeights(weights) ==
    PyDict(weights.keys, [i \in 1..Len(weights.kids) |-> PyList(NewItems(weights.kids[i], 1))])

\* new_penalties: every penalty with int(value)
NewPenalties(penalties) ==
    PyDict(penalties.keys,
           [i \in 1..Len(penalties.kids) |->
               PyInt(IF penalties.kids[i].t = "float" THEN penalties.kids[i].n \div 10
                     ELSE penalties.kids[i].n)])

\* edit_job_requirements(requirements) raises: .keys()/.items() on weights or
\* penalties that are no dict, float()/int() of a value that is no number, and,
\* where the widget library refuses an empty list of tabs, weights with no
\* category
EditRaises(requirements, in) ==
    LET weights == DictGet(requirements, K_importance_weights, EmptyDict)
        penalties == DictGet(requirements, K_penalties, EmptyDict)
    IN  \/ weights.t # "dict"
        \/ penalties.t # "dict"
        \/ (weights.keys = <<>> /\ in.tabs_raise)
        \/ \E i \in 1..Len(weights.kids) :
              /\ weights.kids[i].t = "list"
              /\ \E j \in 1..Len(weights.kids[i].kids) :
                    /\ weights.kids[i].kids[j].t = "dict"
                    /\ ~IsNumber(DictGet(weights.kids[i].kids[j], K_weight, PyFloat(5)))
        \/ \E i \in 1..Len(penalties.kids) : ~IsNumber(penalties.kids[i])

\* edited_requirements: a copy with job_type, importance_weights and
\* penalties replaced by what the widgets hold
EditedRequirements(requirements, in) ==
    LET title == IF in.title = "default"
                 THEN DictGet(requirements, K_job_type, PyStr(<<>>))
                 ELSE PyStr(in.title)
        d1 == DictSet(requirements.keys, requirements.kids, K_job_type, title)
        d2 == DictSet(d1.keys, d1.kids, K_importance_weights,
                      NewWeights(DictGet(requirements, K_importance_weights, EmptyDict)))
        d3 == DictSet(d2.keys, d2.kids, K_penalties,
                      NewPenalties(DictGet(requirements, K_penalties, EmptyDict)))
    IN  PyDict(d3.keys, d3.kids)

\* edit_job_requirements(requirements): the edited copy on Save, the
\* argument on Cancel, None otherwise
EditJobRequirements(requirements, in) ==
    IF in.button = "save" THEN EditedRequirements(requirements, in)
    ELSE IF in.button = "cancel" THEN requirements
    ELSE None

Absent == [present |-> FALSE, value |-> None]
Stored(v) == [present |-> TRUE, value |-> v]

NoDownload == [offered |-> FALSE, data |-> <<>>, name |-> None]

\* DownloadButton under a condition that never holds
DownloadButtonNever(s) == NoDownload

\* lines 416-422: the download button, offered when the session holds
\* requirements
DownloadButton(s) ==
    IF s.present
    THEN [offered |-> TRUE, data |-> JsonDumps(s.value),
          name |-> DictGet(s.value, K_job_type, PyStr(<<"j", "o", "b", "_", "r", "e", "q", "u", "i", "r", "e", "m", "e", "n", "t", "s">>))]
    ELSE NoDownload

\* st.error("No requirements were generated")
NoRequirementsError ==
    [kind |-> "NoRequirements", detail |-> NoDetail, raw |-> <<>>, reason |-> ""]

\* what one run of main() rendered: the st.error message, the success banner,
\* the view and edit tabs, the download button, and the exception that ended
\* the run, if one did
Rendered(error, success, viewed, edited, download, escaped) ==
    [error |-> error, success |-> success, viewed |-> viewed, edited |-> edited,
     download |-> download, escaped |-> escaped]

\* a run of main() with generate_button False: nothing but the download button
PlainRun(s) == Rendered(NoError, FALSE, FALSE, FALSE, DownloadButton(s), "")

\* lines 389-422 for a run with generate_button True: the session slot
\* after the run and what the run rendered.  st.experimental_rerun() ends the
\* run and starts a plain one.
MainGenerate(s, pair, in) ==
    IF pair.error # NoError
    THEN [slot |-> s, page |-> Rendered(pair.error, FALSE, FALSE, FALSE, DownloadButton(s), "")]
    ELSE IF Truthy(pair.requirements)
    THEN IF DisplayRaises(pair.requirements)
         THEN [slot |-> s, page |-> Rendered(NoError, TRUE, FALSE, FALSE, NoDownload, "AttributeError")]
         ELSE IF EditRaises(pair.requirements, in)
         THEN [slot |-> s, page |-> Rendered(NoError, TRUE, TRUE, FALSE, NoDownload, "edit")]
         ELSE LET updated_requirements == EditJobRequirements(pair.requirements, in)
              IN  IF Truthy(updated_requirements)
                  THEN [slot |-> Stored(updated_requirements),
                        page |-> PlainRun(Stored(updated_requirements))]
                  ELSE [slot |-> s,
                        page |-> Rendered(NoError, TRUE, TRUE, TRUE, DownloadButton(s), "")]
    ELSE [slot |-> s, page |-> Rendered(NoRequirementsError, FALSE, FALSE, FALSE, DownloadButton(s), "")]

(***************************************************************************)
(* The match page (src/match.py) and the report page (src/report.py): the  *)
(* module-level Analyze handlers.                                           *)
(***************************************************************************)
\* an uploaded file: its bytes, one character each; BadByte stands for a
\* byte that is no UTF-8
BadByte == "0xff"
NoUpload == [present |-> FALSE, bytes |-> <<>>]
Upload(bytes) == [present |-> TRUE, bytes |-> bytes]

RECURSIVE Utf8Ignore(_)
\* bytes.decode("utf-8", errors="ignore")
Utf8Ignore(bytes) ==
    IF bytes = <<>> THEN <<>>
    ELSE (IF Head(bytes) = BadByte THEN <<>> ELSE <<Head(bytes)>>) \o Utf8Ignore(Tail(bytes))

\* read_file(file)
ReadFile(file) == IF file.present THEN Utf8Ignore(file.bytes) ELSE <<>>

NoFile == [present |-> FALSE, data |-> <<>>]
Written(data) == [present |-> TRUE, data |-> data]

\* one run of an Analyze handler: the texts it read, the calls it made, the
\* st.error it showed ("None", "upload" or "generating"), the result it
\* showed, whether it opened its output file, the download it offered and the
\* exception that ended it, if one did
ARun(app, resume_text, job_text, acalls, error, shown, result, opened, download, escaped) ==
    [app |-> app, resume_text |-> resume_text, job_text |-> job_text, calls |-> acalls,
     error |-> error, shown |-> shown, result |-> result, opened |-> opened,
     download |-> download, escaped |-> escaped]

NoOffer == [offered |-> FALSE, data |-> <<>>]
Offer(data) == [offered |-> TRUE, data |-> data]

\* the handler finds a text empty and stops: st.error, nothing sent
UploadErrorRun(app, resume_text, job_text) ==
    ARun(app, resume_text, job_text, <<>>, "upload", FALSE, <<>>, FALSE, NoOffer, "")

\* the handler has sent its request and waits in requests.post
WaitingRun(app, resume_text, job_text) ==
    ARun(app, resume_text, job_text, <<"post">>, "None", FALSE, <<>>, FALSE, NoOffer, "")

\* a variant that takes 204 No Content for success
StatusNoContent == 200 + 4

\* the status the handlers take for success: response.status_code == 200
StatusOk == 200

\* match.py lines 70-89 from the return of requests.post on: the run and the
\* output file after it.  response.json()["response"]; open(..., "w")
\* empties the file before f.write(result) raises on a result that is no str.
MatchRespond(run, r, file) ==
    LET esc(e) == [run |-> [run EXCEPT !.escaped = e], file |-> file]
    IN  IF r.conn = "refused" THEN esc("ConnectionError")
        ELSE IF r.status # StatusOk
        THEN [run |-> [run EXCEPT !.error = "generating"], file |-> file]
        ELSE IF r.body = "not_json" THEN esc("JSONDecodeError")
        ELSE IF r.body # "dict" THEN esc("TypeError")
        ELSE IF r.response = "absent" THEN esc("KeyError")
        ELSE IF r.response = "null"
        THEN [run |-> [run EXCEPT !.shown = TRUE, !.opened = TRUE, !.escaped = "TypeError"],
              file |-> Written(<<>>)]
        ELSE [run |-> [run EXCEPT !.shown = TRUE, !.result = r.text, !.opened = TRUE,
                                  !.download = Offer(r.text)],
              file |-> Written(r.text)]

\* report.py lines 74-93 from the return of requests.post on.
\* response.json().get("response", "").strip()
ReportRespond(run, r, file) ==
    LET esc(e) == [run |-> [run EXCEPT !.escaped = e], file |-> file]
        result == Strip(FullResponse(r))
    IN  IF r.conn = "refused" THEN esc("ConnectionError")
        ELSE IF r.status # StatusOk
        THEN [run |-> [run EXCEPT !.error = "generating"], file |-> file]
        ELSE IF r.body = "not_json" THEN esc("JSONDecodeError")
        ELSE IF r.body # "dict" THEN esc("AttributeError")
        ELSE IF r.response = "null" THEN esc("AttributeError")
        ELSE [run |-> [run EXCEPT !.shown = TRUE, !.result = result, !.opened = TRUE,
                                  !.download = Offer(result)],
              file |-> Written(result)]

Uploads == {NoUpload, Upload(<<"r">>), Upload(<<BadByte>>)}

AnalyzeTexts == {<<>>, ObjA, <<SP, "x", NL>>}

AnalyzeReplies ==
    {Refused}
    \cup {Answer(st, b, "absent", <<>>) : st \in Statuses, b \in {"not_json", "list", "dict"}}
    \cup {Answer(st, "dict", "null", <<>>) : st \in Statuses}
    \cup {Answer(st, "dict", "str", t) : st \in Statuses, t \in AnalyzeTexts}

NoRun == ARun("none", <<>>, <<>>, <<>>, "None", FALSE, <<>>, FALSE, NoOffer, "")

InitAnalyze ==
    /\ apc = "idle"
    /\ arun = NoRun
    /\ matching_text = <<>>
    /\ disk = [txt |-> NoFile, json |-> NoFile]

\* the user presses Analyze on the match page: match.py lines 20-77
MatchAnalyze ==
    /\ apc = "idle"
    /\ \E resume_file \in Uploads, job_file \in Uploads :
          LET resume_text == ReadFile(resume_file)
              job_text == ReadFile(job_file)
          IN  IF resume_text = <<>> \/ job_text = <<>>
              THEN /\ arun' = UploadErrorRun("match", resume_text, job_text)
                   /\ apc' = "idle"
              ELSE /\ arun' = WaitingRun("match", resume_text, job_text)
                   /\ apc' = "waiting"
    /\ matching_text' = <<>>
    /\ UNCHANGED <<gvars, disk, xvars, pagevars>>

\* the user presses Analyze on the report page: report.py lines 21-81; the
\* matching file may be empty
ReportAnalyze ==
    /\ apc = "idle"
    /\ \E resume_file \in Uploads, job_description \in Uploads, llama_output \in Uploads :
          LET resume_text == ReadFile(resume_file)
              job_text == ReadFile(job_description)
          IN  /\ matching_text' = ReadFile(llama_output)
              /\ IF resume_text = <<>> \/ job_text = <<>>
                 THEN /\ arun' = UploadErrorRun("report", resume_text, job_text)
                      /\ apc' = "idle"
                 ELSE /\ arun' = WaitingRun("report", resume_text, job_text)
                      /\ apc' = "waiting"
    /\ UNCHANGED <<gvars, disk, xvars, pagevars>>

\* requests.post returns or raises in the match page's handler
MatchAnswered ==
    /\ apc = "waiting"
    /\ arun.app = "match"
    /\ \E r \in AnalyzeReplies :
          LET m == MatchRespond(arun, r, disk.txt)
          IN  /\ arun' = m.run
              /\ disk' = [disk EXCEPT !.txt = m.file]
              /\ reply' = r
    /\ apc' = "idle"
    /\ UNCHANGED <<gvars, matching_text, xvars, pc, job_title, slot, ret, calls, before, page>>

\* requests.post returns or raises in the report page's handler
ReportAnswered ==
    /\ apc = "waiting"
    /\ arun.app = "report"
    /\ \E r \in AnalyzeReplies :
          LET m == ReportRespond(arun, r, disk.json)
          IN  /\ arun' = m.run
              /\ disk' = [disk EXCEPT !.json = m.file]
              /\ reply' = r
    /\ apc' = "idle"
    /\ UNCHANGED <<gvars, matching_text, xvars, pc, job_title, slot, ret, calls, before, page>>

NextAnalyze == MatchAnalyze \/ ReportAnalyze \/ MatchAnswered \/ ReportAnswered

(***************************************************************************)
(* The resume parser's agent: resume_parser.py, initialize_agent, called   *)
(* by every run of main().  The extraction service is the environment: it  *)
(* keeps the agents registered under the name "resume-screening", and each *)
(* of its calls returns or raises.                                         *)
(***************************************************************************)
\* the most agents the service ever creates
MaxAgentId == 5

Agent(id, schema) == [id |-> id, schema |-> schema]
NoAgent == Agent(0, "none")

\* one call to the service and how it ended: status 0 is a normal return, a
\* positive status the status_code of the ApiError raised, -1 an exception
\* that is no ApiError (a transport error)
Call(name, status) == [name |-> name, status |-> status]

\* the statuses of the ApiErrors the service raises besides not-found
ErrorStatuses == {401, 429, 500}

\* a variant that passes on every ApiError
SwallowedAny(status_code) == TRUE

\* lines 94-98: the ApiError the handler passes on; every other one is re-raised
Swallowed(status_code) == status_code = 404

\* where initialize_agent is after a call inside the try block ended with
\* this status: the handler catches ApiError only
AfterTry(status, next) ==
    IF status = 0 THEN next
    ELSE IF status > 0 /\ Swallowed(status) THEN "create"
    ELSE "raised"

\* the states of the service the first run can find
PriorStates == {{}, {Agent(1, "Resume")}, {Agent(1, "Other")}}

InitAgent(registered) ==
    /\ agents = registered
    /\ prior = registered
    /\ gpc = "idle"
    /\ gcalls = <<>>
    /\ existing_agent = NoAgent
    /\ agent = NoAgent
    /\ next_id = 2

\* main() runs (line 109) and enters initialize_agent
MainRuns ==
    /\ gpc \in {"idle", "returned", "raised"}
    /\ next_id <= MaxAgentId
    /\ gpc' = "get"
    /\ gcalls' = <<>>
    /\ prior' = agents
    /\ existing_agent' = NoAgent
    /\ agent' = NoAgent
    /\ UNCHANGED <<agents, next_id, xvars, pagevars, avars>>

\* line 91: llama_extract.get_agent(name="resume-screening") returns the
\* agent, returns nothing or raises not-found when there is none, or fails
GetAgent ==
    /\ gpc = "get"
    /\ \/ \E a \in agents :
             /\ existing_agent' = a
             /\ gcalls' = Append(gcalls, Call("get", 0))
             /\ gpc' = AfterTry(0, "delete")
       \/ /\ agents = {}
          /\ \E status \in {0, 404} :
                /\ gcalls' = Append(gcalls, Call("get", status))
                /\ gpc' = AfterTry(status, "create")
          /\ UNCHANGED existing_agent
       \/ \E status \in ErrorStatuses \cup {-1} :
             /\ gcalls' = Append(gcalls, Call("get", status))
             /\ gpc' = AfterTry(status, "create")
             /\ UNCHANGED existing_agent
    /\ UNCHANGED <<agents, prior, agent, next_id, xvars, pagevars, avars>>

\* line 93: llama_extract.delete_agent(existing_agent.id) removes the agent
\* or fails
DeleteAgent ==
    /\ gpc = "delete"
    /\ \/ /\ agents' = agents \ {existing_agent}
          /\ gcalls' = Append(gcalls, Call("delete", 0))
          /\ gpc' = AfterTry(0, "create")
       \/ \E status \in ErrorStatuses \cup {-1} :
             /\ gcalls' = Append(gcalls, Call("delete", status))
             /\ gpc' = AfterTry(status, "create")
             /\ UNCHANGED agents
    /\ UNCHANGED <<prior, existing_agent, agent, next_id, xvars, pagevars, avars>>

\* lines 100-102: llama_extract.create_agent(name="resume-screening",
\* data_schema=Resume) registers a new agent or fails; where the name is
\* taken the service refuses or registers a second agent under it
CreateAgent ==
    /\ gpc = "create"
    /\ \/ /\ agent' = Agent(next_id, "Resume")
          /\ agents' = agents \cup {Agent(next_id, "Resume")}
          /\ next_id' = next_id + 1
          /\ gcalls' = Append(gcalls, Call("create", 0))
          /\ gpc' = "returned"
       \/ \E status \in ErrorStatuses \cup {-1} \cup (IF agents # {} THEN {409} ELSE {}) :
             /\ gcalls' = Append(gcalls, Call("create", status))
             /\ gpc' = "raised"
             /\ UNCHANGED <<agents, agent, next_id>>
    /\ UNCHANGED <<prior, existing_agent, xvars, pagevars, avars>>

NextAgent == MainRuns \/ GetAgent \/ DeleteAgent \/ CreateAgent

(***************************************************************************)
(* The job-requirements page as a state machine: one action per run of     *)
(* main().                                                                  *)
(***************************************************************************)
MaxReplyPieces == 2

ReplyTexts == TextsOf(MaxReplyPieces)

Replies ==
    {Refused}
    \cup {Answer(st, b, "absent", <<>>) : st \in Statuses, b \in {"not_json", "list", "dict"}}
    \cup {Answer(st, "dict", "null", <<>>) : st \in Statuses}
    \cup {Answer(200, "dict", "str", t) : t \in ReplyTexts}
    \cup {Answer(st, "dict", "str", ObjA) : st \in Statuses}

Titles == {<<>>, <<"d", "e", "v">>}

EditInputs ==
    [button : {"none", "save", "cancel"}, title : {"default", <<"q", "a">>}, tabs_raise : BOOLEAN]

\* the widgets of the edit tab exist only in a run that reaches them
InputsFor(pair) ==
    IF pair.error = NoError /\ Truthy(pair.requirements) /\ ~DisplayRaises(pair.requirements)
    THEN EditInputs
    ELSE {[button |-> "none", title |-> "default", tabs_raise |-> FALSE]}

\* generate_job_requirements on every reply, evaluated once
GenerateTable == [r \in Replies |-> GenerateJobRequirements(r)]

NoReply == Refused

InitPage ==
    /\ pc = "idle"
    /\ job_title = <<>>
    /\ slot = Absent
    /\ reply = NoReply
    /\ ret = Pair(None, NoError)
    /\ calls = <<>>
    /\ before = Absent
    /\ page = PlainRun(Absent)

Init ==
    /\ text = <<>>
    /\ xpc = "input"
    /\ outcome = Pair(None, NoError)
    /\ InitPage
    /\ InitAnalyze
    /\ InitAgent({})

\* the user edits the job title: a run of main() with generate_button False
EnterTitle ==
    /\ pc = "idle"
    /\ \E t \in Titles : job_title' = t
    /\ page' = PlainRun(slot)
    /\ reply' = NoReply
    /\ ret' = Pair(None, NoError)
    /\ calls' = <<>>
    /\ before' = slot
    /\ UNCHANGED <<gvars, pc, slot, xvars, avars>>

\* the user presses Generate Requirements (enabled when the title is not
\* empty): a run of main() with generate_button True starts and blocks in
\* requests.post
Generate ==
    /\ pc = "idle"
    /\ job_title # <<>>
    /\ pc' = "waiting"
    /\ page' = Rendered(NoError, FALSE, FALSE, FALSE, NoDownload, "")
    /\ reply' = NoReply
    /\ ret' = Pair(None, NoError)
    /\ calls' = <<>>
    /\ before' = slot
    /\ UNCHANGED <<gvars, job_title, slot, xvars, avars>>

\* requests.post returns or raises, and the run goes on to its end
Respond ==
    /\ pc = "waiting"
    /\ \E r \in Replies :
          LET g == GenerateTable[r]
          IN  \E in \in InputsFor(g.pair) :
                 LET m == MainGenerate(slot, g.pair, in)
                 IN  /\ reply' = r
                     /\ ret' = g.pair
                     /\ calls' = g.calls
                     /\ slot' = m.slot
                     /\ page' = m.page
    /\ pc' = "idle"
    /\ UNCHANGED <<gvars, job_title, before, xvars, avars>>

Next == EnterTitle \/ Generate \/ Respond

Spec == Init /\ [][Next]_vars

SpecAnalyze == Init /\ [][NextAnalyze]_vars

\* the resume parser against every prior state of the service; each service
\* call returns or raises
InitService ==
    /\ text = <<>>
    /\ xpc = "input"
    /\ outcome = Pair(None, NoError)
    /\ InitPage
    /\ InitAnalyze
    /\ \E registered \in PriorStates : InitAgent(registered)

SpecAgent ==
    InitService /\ [][NextAgent]_vars /\ WF_vars(GetAgent \/ DeleteAgent \/ CreateAgent)

(***************************************************************************)
(* The extraction step alone, on every text.                               *)
(***************************************************************************)
InitExtract ==
    /\ text \in Texts
    /\ xpc = "input"
    /\ outcome = Pair(None, NoError)
    /\ InitPage
    /\ InitAnalyze
    /\ InitAgent({})

Extract ==
    /\ xpc = "input"
    /\ xpc' = "returned"
    /\ outcome' = ExtractJson(text)
    /\ UNCHANGED <<gvars, text, pagevars, avars>>

NextExtract == Extract

SpecExtract == InitExtract /\ [][NextExtract]_vars

(***************************************************************************)
(* What the claims speak of, stated on the text alone.                     *)
(***************************************************************************)
\* the text holds a fenced block: an opening fence and, after it, a closing one
HasFencedBlock(t) ==
    \E p \in Occurrences(t, FenceOpen) :
        \E q \in Occurrences(t, FenceClose) : q >= p + Len(FenceOpen)

\* where the first fenced block of the text starts and where its closing fence starts
FirstOpen(t) == Min(Occurrences(t, FenceOpen))
FirstClose(t) == Min({q \in Occurrences(t, FenceClose) : q >= FirstOpen(t) + Len(FenceOpen)})

\* the interior of the first fenced block
FirstInterior(t) == SubSeq(t, FirstOpen(t) + Len(FenceOpen), FirstClose(t) - 1)

\* the text up to the end of the first block's closing fence, and what follows it
UpToFirstClose(t) == SubSeq(t, 1, FirstClose(t) + Len(FenceClose) - 1)
AfterFirstClose(t) == SubSeq(t, FirstClose(t) + Len(FenceClose), Len(t))

\* the spans of the text that start with '{', end with '}' and are valid JSON
ValidSpans(t) ==
    {pq \in Occurrences(t, <<"{">>) \X Occurrences(t, <<"}">>) :
        pq[1] < pq[2] /\ JsonLoads(SubSeq(t, pq[1], pq[2])).ok}

\* the span from the first '{' of the text to its last '}'
HasWideSpan(t) ==
    /\ Occurrences(t, <<"{">>) # {}
    /\ \E q \in Occurrences(t, <<"}">>) : q > Min(Occurrences(t, <<"{">>))
WideSpan(t) == SubSeq(t, Min(Occurrences(t, <<"{">>)), Max(Occurrences(t, <<"}">>)))

AllSpace(t) == \A i \in 1..Len(t) : IsSpace(t[i])

(***************************************************************************)
(* Claims about the extraction step (checked under SpecExtract).           *)
(***************************************************************************)
\* C1: for a text with a single fenced json block whose interior is valid
\* JSON, the step returns (value, None) with value the decoding of that
\* interior.
C1_SingleFencedBlockDecodesInterior ==
    (/\ xpc = "returned"
     /\ Cardinality(Occurrences(text, FenceOpen)) = 1
     /\ HasFencedBlock(text)
     /\ JsonLoads(FirstInterior(text)).ok)
    => outcome = Pair(JsonLoads(FirstInterior(text)).v, NoError)

\* C2: for a text with no fenced block and exactly one balanced {...} span
\* holding valid JSON, the step returns the decoding of that span and no error.
C2_SingleBareSpanDecodes ==
    (/\ xpc = "returned"
     /\ ~HasFencedBlock(text)
     /\ Cardinality(ValidSpans(text)) = 1)
    => \A pq \in ValidSpans(text) :
          outcome = Pair(JsonLoads(SubSeq(text, pq[1], pq[2])).v, NoError)

\* C3 as stated: for a text with no '{' at all, the step fails with the
\* could-not-find-JSON error, never with success or the invalid-JSON error.
C3_NoBraceIsNotFound ==
    (xpc = "returned" /\ Occurrences(text, <<"{">>) = {})
    => /\ outcome.requirements = None
       /\ outcome.error.kind = "NoJson"

\* C3 as amended: for a text with no '{' and no fenced block, the step fails
\* with the could-not-find-JSON error, which quotes the text.
C3_NoBraceNoFenceIsNotFound ==
    (xpc = "returned" /\ Occurrences(text, <<"{">>) = {} /\ ~HasFencedBlock(text))
    => /\ outcome.requirements = None
       /\ outcome.error.kind = "NoJson"
       /\ outcome.error.raw = text

C3_Witness ==
    /\ xpc = "returned"
    /\ Occurrences(text, <<"{">>) = {}
    /\ ~HasFencedBlock(text)
    /\ Occurrences(text, <<"}">>) # {}
    /\ outcome.error.kind = "NoJson"

\* C4 as stated: for a text in which a '{' is followed by invalid JSON up to
\* its apparent closing '}', the step fails with the invalid-JSON error,
\* returns no value, and the error carries the decode error and the text.
C4_InvalidSpanIsMalformed ==
    (/\ xpc = "returned"
     /\ HasWideSpan(text)
     /\ ~JsonLoads(WideSpan(text)).ok)
    => /\ outcome.requirements = None
       /\ outcome.error.kind = "InvalidJson"
       /\ outcome.error.detail.msg # ""
       /\ outcome.error.raw = text

\* C4 as amended: for a text with no fenced block and no triple backtick
\* inside the span from its first '{' to its last '}', if that span is invalid
\* JSON the step fails with the invalid-JSON error, returns no value, and the
\* error carries the decode error of the span and the whole text unchanged.
C4_InvalidPlainSpanIsMalformed ==
    (/\ xpc = "returned"
     /\ HasWideSpan(text)
     /\ ~HasFencedBlock(text)
     /\ Occurrences(WideSpan(text), Ticks) = {}
     /\ ~JsonLoads(WideSpan(text)).ok)
    => /\ outcome.requirements = None
       /\ outcome.error.kind = "InvalidJson"
       /\ outcome.error.detail.msg = JsonLoads(WideSpan(text)).msg
       /\ outcome.error.detail.pos = JsonLoads(WideSpan(text)).pos
       /\ outcome.error.raw = text

C4_Witness ==
    /\ xpc = "returned"
    /\ text = ObjTrailingComma \o <<SP, "x">>
    /\ outcome.error.kind = "InvalidJson"
    /\ outcome.error.detail = [msg |-> "Expecting property name enclosed in double quotes", pos |-> 7]
    /\ outcome.error.raw = text

EndpointFailed(r) == r.conn = "refused" \/ r.status < 200 \/ r.status >= 300

\* a run of the job-requirements page's generate action has ended
GenerateEnded == pc = "idle" /\ calls # <<>>

\* C6: after a generate action that failed with the connection, the
\* could-not-find-JSON or the invalid-JSON error, the session slot is what it
\* was before the action, and the download offered is that of the old value
\* (none when the slot was absent).
C6_FailureLeavesSlot ==
    (GenerateEnded /\ ret.error.kind \in {"Connect", "NoJson", "InvalidJson"})
    => /\ slot = before
       /\ page.download = (IF before.present
                           THEN [offered |-> TRUE, data |-> JsonDumps(before.value),
                                 name |-> DictGet(before.value, K_job_type, PyStr(<<"j", "o", "b", "_", "r", "e", "q", "u", "i", "r", "e", "m", "e", "n", "t", "s">>))]
                           ELSE NoDownload)
       /\ page.error = ret.error

C6_Witness ==
    /\ GenerateEnded
    /\ ret.error.kind = "InvalidJson"
    /\ before.present
    /\ slot = before
    /\ page.download.offered
    /\ JsonLoads(page.download.data).v = before.value

\* C7: on each of the three pages, an unreachable endpoint or a non-success
\* status ends the action with an error shown to the user: no decode
\* attempted, no output file opened, no download of a result offered, and no
\* exception escaping the action.
C7_EndpointFailureIsReported ==
    /\ (GenerateEnded /\ EndpointFailed(reply))
       => /\ page.error # NoError
          /\ calls = <<"post">>
          /\ page.download = DownloadButton(before)
          /\ page.escaped = ""
    /\ (apc = "idle" /\ arun.calls # <<>> /\ EndpointFailed(reply))
       => /\ arun.error # "None"
          /\ ~arun.shown
          /\ ~arun.opened
          /\ ~arun.download.offered
          /\ arun.escaped = ""

C8_WitnessRefused ==
    /\ GenerateEnded
    /\ reply.conn = "refused"
    /\ calls = <<"post">>

\* C10: for an empty or whitespace-only response text, and for a reply with
\* no response field, the step fails with the could-not-find-JSON error and
\* returns no value.
C10_EmptyResponseIsNotFound ==
    (/\ GenerateEnded
     /\ reply.conn = "ok"
     /\ ~RaisesForStatus(reply)
     /\ reply.body = "dict"
     /\ \/ reply.response = "absent"
        \/ reply.response = "str" /\ AllSpace(reply.text))
    => /\ ret.requirements = None
       /\ ret.error.kind = "NoJson"
       /\ AllSpace(ret.error.raw)

C10_Witness ==
    /\ GenerateEnded
    /\ reply.conn = "ok"
    /\ reply.body = "dict"
    /\ reply.response = "absent"
    /\ ret.error.kind = "NoJson"
    /\ page.error = ret.error

C10_WitnessSpace ==
    /\ GenerateEnded
    /\ reply.response = "str"
    /\ reply.text = <<SP, SP>>
    /\ ret.error.kind = "NoJson"

(***************************************************************************)
(* Further claims about the extraction step (checked under SpecExtract).   *)
(***************************************************************************)
\* C11: when the text has a fenced json block, the candidate is the interior
\* of the first block and nothing else: the step returns the decoding of the
\* cleaned-up interior, or the invalid-JSON error of that interior, whatever
\* {...} objects appear elsewhere in the text.
C11_FencedBlockTakesPrecedence ==
    (xpc = "returned" /\ HasFencedBlock(text))
    => LET r == JsonLoads(CleanUp(FirstInterior(text)))
       IN  IF r.ok
           THEN outcome = Pair(r.v, NoError)
           ELSE /\ outcome.requirements = None
                /\ outcome.error.kind = "InvalidJson"
                /\ outcome.error.detail.msg = r.msg
                /\ outcome.error.detail.pos = r.pos
                /\ outcome.error.raw = text

\* the fenced interior does not decode and a valid object stands before the fence
C11_Witness ==
    /\ xpc = "returned"
    /\ HasFencedBlock(text)
    /\ ~JsonLoads(CleanUp(FirstInterior(text))).ok
    /\ \E pq \in ValidSpans(text) : pq[2] < FirstOpen(text)
    /\ outcome.error.kind = "InvalidJson"

\* the same with the valid object after the closing fence
C11_WitnessAfter ==
    /\ xpc = "returned"
    /\ HasFencedBlock(text)
    /\ ~JsonLoads(CleanUp(FirstInterior(text))).ok
    /\ \E pq \in ValidSpans(text) : pq[1] >= FirstClose(text) + Len(FenceClose)
    /\ outcome.error.kind = "InvalidJson"

\* C12: when the text has no fenced json block, the candidate is the span from
\* the first '{' of the text to its last '}': the step returns the decoding of
\* that span after clean-up, or its invalid-JSON error; when no '}' follows the
\* first '{' (or there is no '{'), the step fails with the
\* could-not-find-JSON error quoting the text.
C12_FallbackIsWidestSpan ==
    (xpc = "returned" /\ ~HasFencedBlock(text))
    => IF HasWideSpan(text)
       THEN LET r == JsonLoads(CleanUp(WideSpan(text)))
            IN  IF r.ok
                THEN outcome = Pair(r.v, NoError)
                ELSE /\ outcome.requirements = None
                     /\ outcome.error.kind = "InvalidJson"
                     /\ outcome.error.detail.msg = r.msg
                     /\ outcome.error.detail.pos = r.pos
                     /\ outcome.error.raw = text
       ELSE /\ outcome.requirements = None
            /\ outcome.error.kind = "NoJson"
            /\ outcome.error.raw = text

\* a narrower span of the text is valid JSON, the widest one is not
C12_Witness ==
    /\ xpc = "returned"
    /\ ~HasFencedBlock(text)
    /\ HasWideSpan(text)
    /\ ValidSpans(text) # {}
    /\ Max(Occurrences(text, <<"}">>)) = Len(text) - 1
    /\ outcome.error.kind = "InvalidJson"
    /\ outcome.error.detail.msg = "Extra data"

\* the text has a '{' and a '}' but no '}' after its first '{'
C12_WitnessNoClose ==
    /\ xpc = "returned"
    /\ ~HasFencedBlock(text)
    /\ Occurrences(text, <<"{">>) # {}
    /\ Occurrences(text, <<"}">>) # {}
    /\ ~HasWideSpan(text)
    /\ outcome.error.kind = "NoJson"

(***************************************************************************)
(* Further claims about the job-requirements page (checked under Spec).    *)
(***************************************************************************)
\* C13 as stated: generate_job_requirements returns a pair in which exactly
\* one component is None: a value and no error, or no value and an error.
C13_ExactlyOneIsNone ==
    GenerateEnded
    => ((ret.requirements = None) # (ret.error = NoError))

\* C13 as amended: generate_job_requirements returns a pair in which at most
\* one component is not None: an error always comes with no value, the error
\* is one of connection, unexpected, not-found and invalid-JSON, and both
\* components are None only when the first fenced block of the response text
\* decodes to null.  The outcomes exclude one another: the connection error is
\* returned exactly when the endpoint is unreachable, answers a 4xx/5xx status
\* or a body that is not JSON, and then nothing is decoded; not-found is
\* returned without a decode, invalid-JSON and success after exactly one.
C13_AtMostOneIsNotNone ==
    GenerateEnded
    => /\ ret.error.kind \in {"None", "Connect", "Unexpected", "NoJson", "InvalidJson"}
       /\ (ret.error # NoError) => (ret.requirements = None)
       /\ (ret.error = NoError /\ ret.requirements = None)
          => /\ HasFencedBlock(reply.text)
             /\ JsonLoads(CleanUp(FirstInterior(reply.text))).ok
             /\ JsonLoads(CleanUp(FirstInterior(reply.text))).v = None
       /\ (ret.error.kind = "Connect")
          <=> (reply.conn = "refused" \/ reply.status >= 400 \/ reply.body = "not_json")
       /\ (ret.error.kind \in {"Connect", "Unexpected", "NoJson"}) => (calls = <<"post">>)
       /\ (ret.error.kind \in {"None", "InvalidJson"}) => (calls = <<"post", "loads">>)

\* the endpoint answered a fenced null: no value and no error
C13_Witness ==
    /\ GenerateEnded
    /\ reply.conn = "ok"
    /\ reply.status = 200
    /\ ret.requirements = None
    /\ ret.error = NoError
    /\ page.error = NoRequirementsError

\* C14: after a generate action whose extraction returned no error, the page
\* shows no error message, no exception has ended the run, and the decoded
\* requirements were shown in the view and edit tabs (or Save/Cancel was
\* pressed there and the rerun shows the plain page); an error message is on
\* the page only when the extraction returned an error.
C14_SuccessIsShown ==
    GenerateEnded
    => /\ (ret.error = NoError)
          => /\ page.error = NoError
             /\ page.escaped = ""
             /\ \/ page.viewed /\ page.edited
                \/ slot.present /\ page = PlainRun(slot)
       /\ (page.error # NoError) => (ret.error # NoError)

\* the three ways out of C14: a decoded value that is no object, an empty
\* decoded value, and an object without categories where an empty list of
\* tabs is refused
C14_DisplayRaised ==
    /\ GenerateEnded
    /\ ret.error = NoError
    /\ ret.requirements = PyInt(1)
    /\ page.escaped = "AttributeError"
    /\ ~page.viewed

C14_EmptyIsAnError ==
    /\ GenerateEnded
    /\ ret = Pair(EmptyDict, NoError)
    /\ page.error = NoRequirementsError

C14_EditRaised ==
    /\ GenerateEnded
    /\ ret.error = NoError
    /\ page.viewed
    /\ ~page.edited
    /\ page.escaped = "edit"

\* C15: between runs, the slot differs from what it held before the last
\* action only if that action was a generate whose editor returned a value,
\* and then it holds that value whole: the generated value (Cancel) or its
\* edited copy (Save); the download is offered exactly when the slot exists,
\* and its data is the serialization of the slot's value and decodes back to it.
C15_SlotIsLastEditorValue ==
    (pc = "idle")
    => /\ (slot # before)
          => /\ GenerateEnded
             /\ ret.error = NoError
             /\ slot.present
             /\ \/ slot.value = ret.requirements
                \/ \E in \in EditInputs : slot.value = EditedRequirements(ret.requirements, in)
       /\ page.download.offered <=> slot.present
       /\ page.download.offered
          => /\ page.download.data = JsonDumps(slot.value)
             /\ JsonLoads(page.download.data).v = slot.value

\* the slot holds an earlier Save and the current run ended by an exception
\* before the download button was reached
C15_NoDownloadAfterRaise ==
    /\ GenerateEnded
    /\ slot.present
    /\ slot = before
    /\ page.escaped # ""
    /\ ~page.download.offered

\* Save stored an edited copy that differs from the generated value
C15_SaveStoredEditedCopy ==
    /\ GenerateEnded
    /\ slot # before
    /\ slot.value # ret.requirements
    /\ page.download.offered
    /\ JsonLoads(page.download.data).v = slot.value

(***************************************************************************)
(* Further claims about the match and report pages (checked under          *)
(* SpecAnalyze).                                                           *)
(***************************************************************************)
\* the output file of the page the last Analyze run belongs to
OutputFile == IF arun.app = "match" THEN disk.txt ELSE disk.json

\* C16: an Analyze run sends its one request exactly when the resume text and
\* the job-description text are both non-empty, whatever the matching text;
\* otherwise it shows the upload error, sends nothing, opens no file and
\* offers no download.  The output file is opened, and the download offered,
\* only after a reply with status 200; when the download is offered the file
\* holds the text shown to the user, and the download carries the same text.
C16_AnalyzeGuards ==
    (arun.app # "none")
    => /\ arun.calls \in {<<>>, <<"post">>}
       /\ (arun.calls = <<"post">>) <=> (arun.resume_text # <<>> /\ arun.job_text # <<>>)
       /\ (arun.calls = <<>>)
          => /\ arun.error = "upload"
             /\ ~arun.shown /\ ~arun.opened /\ ~arun.download.offered
       /\ (arun.opened \/ arun.download.offered \/ arun.shown)
          => (reply.conn = "ok" /\ reply.status = 200)
       /\ arun.download.offered
          => /\ arun.shown /\ arun.opened
             /\ OutputFile = Written(arun.result)
             /\ arun.download.data = arun.result

\* the report page analysed with an empty matching file: status 200, the
\* stripped response shown, written to llama_output.json and offered
C16_Witness ==
    /\ apc = "idle"
    /\ arun.app = "report"
    /\ matching_text = <<>>
    /\ arun.calls = <<"post">>
    /\ reply.status = 200
    /\ arun.result = <<"x">>
    /\ reply.text # arun.result
    /\ disk.json = Written(arun.result)
    /\ arun.download = Offer(arun.result)

\* an upload that decodes to the empty text: the error, and nothing sent
C16_WitnessNothingSent ==
    /\ apc = "idle"
    /\ arun.app = "match"
    /\ arun.resume_text # <<>>
    /\ arun.job_text = <<>>
    /\ arun.error = "upload"
    /\ arun.calls = <<>>
    /\ disk.txt.present

(***************************************************************************)
(* The claim about the resume parser's agent (checked under SpecAgent).    *)
(***************************************************************************)
\* the names of the service calls of the last run, in order
CallNames == [i \in DOMAIN gcalls |-> gcalls[i].name]

\* what holds at every point of a run of initialize_agent
AgentOutcome ==
    /\ (gpc = "returned")
       => /\ agents = {agent}
          /\ agent.schema = "Resume"
          /\ agent \notin prior
          /\ CallNames = (IF prior = {} THEN <<"get", "create">>
                          ELSE <<"get", "delete", "create">>)
          /\ \A i \in DOMAIN gcalls : gcalls[i].status \in {0, 404}
          /\ (prior # {}) => (gcalls[1].status = 0 /\ gcalls[2].status = 0)
    /\ (gpc = "raised")
       => /\ agent = NoAgent
          /\ agents \subseteq prior
          /\ gcalls # <<>>
          /\ gcalls[Len(gcalls)].status \notin {0, 404}
          /\ (gcalls[Len(gcalls)].name # "create") => (agents = prior)
    /\ \A i \in DOMAIN gcalls :
          /\ (gcalls[i].status \notin {0, 404}) => (gpc = "raised" /\ i = Len(gcalls))
          /\ (gcalls[i] = Call("get", 404))
             => /\ prior = {}
                /\ gpc \in {"create", "returned", "raised"}
                /\ (Len(gcalls) > i) => (gcalls[i + 1].name = "create")

C17_WitnessNotFound ==
    /\ gpc = "returned"
    /\ gcalls = <<Call("get", 404), Call("create", 0)>>
    /\ Cardinality(agents) = 1

\* the agent found was deleted and the create failed: no agent is left
C17_WitnessCreateFailed ==
    /\ gpc = "raised"
    /\ prior # {}
    /\ agents = {}
    /\ CallNames = <<"get", "delete", "create">>

====
